---- MODULE Spec2Model ----
(***************************************************************************)
(* A model of jadep-graph (src/src/main.rs): the dependency graph builder  *)
(* build_dependency_tree, the serializer generate_dot_content, the two     *)
(* tree scanners traverse_folder / traverse_folder_par, and main.          *)
(*                                                                         *)
(* Strings are sequences of one-character strings, so that starts_with,    *)
(* replace and format! are computed character by character.  An            *)
(* Option<T> is a sequence of length at most one: None is <<>> and         *)
(* Some(x) is <<x>>.  A DashMap is a function whose DOMAIN is its key set; *)
(* its iteration order is not specified, so every loop over a map picks    *)
(* the next key nondeterministically.                                      *)
(***************************************************************************)
EXTENDS Integers, Sequences, FiniteSets, TLC

VARIABLES
    pc,                 \* position of the running program
    imports_map,        \* the Import Map: identity -> Vec<String>
    root_class_prefix,  \* Option<&str>
    depth,              \* Option<usize>
    rank_dir,           \* RankDir
    seed_todo,          \* keys the root-seeding loop has not yet yielded
    stack,              \* Vec<(String, usize)>, top at the end
    visited,            \* DashSet<String>
    tree,               \* the subgraph under construction / returned
    emit_todo,          \* keys of dependency_tree the emit loop has not yet yielded
    dot_content,        \* the text built so far: a sequence of lines
    fs,                 \* the directory tree under folder_path
    seq_stack,          \* traverse_folder: Vec<PathBuf>, top at the end
    seq_entries,        \* traverse_folder: entries the running for loop has left
    seq_map,            \* traverse_folder: its imports_map
    seq_status,         \* traverse_folder: idle, run, ok (returned) or panic
    par_calls,          \* traverse_folder_par: the calls in progress, by directory
    par_status,         \* traverse_folder_par: idle, run, ok (returned) or panic
    par_result,         \* the map the outermost traverse_folder_par returned
    rank_token          \* the --rank-dir argument, an Option<String>

buildVars == <<seed_todo, stack, visited, tree>>
dotVars == <<rank_dir, emit_todo, dot_content>>
inputVars == <<imports_map, root_class_prefix, depth>>
seqVars == <<seq_stack, seq_entries, seq_map, seq_status>>
parVars == <<par_calls, par_status, par_result>>
scanVars == <<fs, seqVars, parVars>>
vars == <<pc, imports_map, root_class_prefix, depth, rank_dir, seed_todo, stack,
          visited, tree, emit_todo, dot_content, fs, seq_stack, seq_entries,
          seq_map, seq_status, par_calls, par_status, par_result, rank_token>>

----------------------------------------------------------------------------
(* Bounds of the model *)

\* the largest total number of import references in an exhaustively drawn map
MaxEdges == 2
\* the largest depth bound given as Some(d)
MaxDepth == 2
\* the largest number of entries below folder_path
MaxEntries == 3

----------------------------------------------------------------------------
(* Option, strings, maps *)

None == <<>>
Some(x) == <<x>>
IsSome(o) == Len(o) = 1
Unwrap(o) == o[1]

\* str::starts_with
StartsWith(s, p) == Len(p) <= Len(s) /\ SubSeq(s, 1, Len(p)) = p

\* Replace with a fault: only the first occurrence is replaced, as by
\* replacen(.., 1)
ReplaceFirst(s, from, to) ==
    [i \in 1..Len(s) |-> IF s[i] = from /\ (\A j \in 1..(i - 1) : s[j] # from)
                         THEN to ELSE s[i]]

\* str::replace(char, &str) with a one-character replacement
Replace(s, from, to) == [i \in 1..Len(s) |-> IF s[i] = from THEN to ELSE s[i]]

\* MapInsert with a fault: the value is appended to the list the key has
MapInsertAppend(m, k, v) ==
    [x \in DOMAIN m \cup {k} |-> IF x = k /\ k \in DOMAIN m THEN m[k] \o v
                                 ELSE IF x = k THEN v ELSE m[x]]

\* DashMap::insert: the value for an existing key is overwritten
MapInsert(m, k, v) == [x \in DOMAIN m \cup {k} |-> IF x = k THEN v ELSE m[x]]

EmptyMap == [x \in {} |-> <<>>]

RECURSIVE SumLen(_, _)
SumLen(m, keys) ==
    IF keys = {} THEN 0
    ELSE LET k == CHOOSE x \in keys : TRUE
         IN Len(m[k]) + SumLen(m, keys \ {k})

----------------------------------------------------------------------------
(* Inputs *)

IdA == <<"a">>
IdB == <<"a", "/">>
IdC == <<"\"", "/", "\"">>
IdD == <<"c", "'", "_">>

\* identities of the exhaustively drawn maps
Idents == {IdA, IdB, IdC}
\* identities of the chain-shaped maps
ChainIdents == {IdA, IdB, IdC, IdD}

Lists(S, n) == UNION {[1..m -> S] : m \in 0..n}

\* every map over Idents (dangling references included) with at most
\* MaxEdges references in all
SmallMaps ==
    UNION {{m \in [K -> Lists(Idents, MaxEdges)] : SumLen(m, K) <= MaxEdges}
           : K \in SUBSET Idents}

\* an injective sequence of identities
IsPath(p) == \A i, j \in 1..Len(p) : i # j => p[i] # p[j]
Paths == {p \in UNION {[1..n -> ChainIdents] : n \in 1..Cardinality(ChainIdents)} :
            IsPath(p)}

\* the chain p[1] -> p[2] -> ... -> p[n]; the last identity is a key with no
\* imports (last = TRUE) or only a reference (last = FALSE)
ChainMap(p, last) ==
    [k \in {p[i] : i \in 1..(IF last THEN Len(p) ELSE Len(p) - 1)} |->
        LET i == CHOOSE j \in 1..Len(p) : p[j] = k
        IN IF i < Len(p) THEN <<p[i + 1]>> ELSE <<>>]
ChainMaps == {ChainMap(p, last) : p \in Paths, last \in BOOLEAN}

InputMaps == SmallMaps \cup ChainMaps
InputPrefixes == {None, Some(<<"a">>), Some(IdB), Some(<<"\"">>)}
InputDepths == {None} \cup {Some(d) : d \in 0..MaxDepth}
InputRankDirs == {"LR", "BT"}

----------------------------------------------------------------------------
(* build_dependency_tree *)

\* TooDeep with an off-by-one fault: the bound taken one too large, and one
\* too small
TooDeepLate(current_depth) == IsSome(depth) /\ current_depth > Unwrap(depth) + 1
TooDeepEarly(current_depth) == IsSome(depth) /\ current_depth >= Unwrap(depth)

\* current_depth > depth, where depth is depth.unwrap_or(usize::MAX): no
\* current_depth exceeds usize::MAX
TooDeep(current_depth) == IsSome(depth) /\ current_depth > Unwrap(depth)

\* IsRoot with a fault: the prefix is not looked at
IsRootAny(package_name) == TRUE

\* the test of the root-seeding loop: push (package_name, 0) or not
IsRoot(package_name) ==
    \/ ~IsSome(root_class_prefix)
    \/ IsSome(root_class_prefix) /\ StartsWith(package_name, Unwrap(root_class_prefix))

\* the entry of the call: tree, visited and stack are created empty
BuildEnter ==
    /\ seed_todo' = DOMAIN imports_map
    /\ stack' = <<>>
    /\ visited' = {}
    /\ tree' = EmptyMap
    /\ pc' = IF DOMAIN imports_map = {} THEN "loop" ELSE "seed"

\* one iteration of `for package_name in imports_map.iter()`
SeedRoot ==
    /\ pc = "seed"
    /\ \E package_name \in seed_todo :
        /\ seed_todo' = seed_todo \ {package_name}
        /\ stack' = IF IsRoot(package_name)
                    THEN Append(stack, <<package_name, 0>>)
                    ELSE stack
        /\ pc' = IF seed_todo' = {} THEN "loop" ELSE "seed"
    /\ UNCHANGED <<visited, tree, inputVars, dotVars, scanVars, rank_token>>

Top == stack[Len(stack)]
Popped == SubSeq(stack, 1, Len(stack) - 1)

\* PopTooDeep with a fault: the entry discarded for its depth is marked visited
PopTooDeepMarking ==
    /\ pc = "loop"
    /\ stack # <<>>
    /\ TooDeep(Top[2])
    /\ stack' = Popped
    /\ visited' = visited \cup {Top[1]}
    /\ UNCHANGED <<seed_todo, tree, pc, inputVars, dotVars, scanVars, rank_token>>

\* pop; current_depth > depth: continue
PopTooDeep ==
    /\ pc = "loop"
    /\ stack # <<>>
    /\ TooDeep(Top[2])
    /\ stack' = Popped
    /\ UNCHANGED <<seed_todo, visited, tree, pc, inputVars, dotVars, scanVars, rank_token>>

\* pop; visited.contains(&package_name): nothing to do
PopVisited ==
    /\ pc = "loop"
    /\ stack # <<>>
    /\ ~TooDeep(Top[2])
    /\ Top[1] \in visited
    /\ stack' = Popped
    /\ UNCHANGED <<seed_todo, visited, tree, pc, inputVars, dotVars, scanVars, rank_token>>

\* the import list the expansion walks: imports_map.get(&package_name)
ImportsOf(package_name) ==
    IF package_name \in DOMAIN imports_map THEN imports_map[package_name] ELSE <<>>

\* WithEntry with a fault: an entry is made only for a key of imports_map
WithEntryKnown(t, package_name) ==
    IF package_name \in DOMAIN t \/ package_name \notin DOMAIN imports_map
    THEN t
    ELSE MapInsert(t, package_name, <<>>)

\* tree.entry(package_name).or_insert(Vec::new())
WithEntry(t, package_name) ==
    IF package_name \in DOMAIN t THEN t ELSE MapInsert(t, package_name, <<>>)

\* tree.get_mut(&package_name).unwrap() is reached (there is an import to
\* push) and finds no entry
GetMutFails(t, package_name) ==
    ImportsOf(package_name) # <<>> /\ package_name \notin DOMAIN WithEntry(t, package_name)

\* Expanded with a fault: an import whose target is already visited is left out
ExpandedUnvisited(t, package_name) ==
    [WithEntry(t, package_name) EXCEPT
        ![package_name] = @ \o SelectSeq(ImportsOf(package_name), LAMBDA r : r \notin visited)]

\* the entry is made, then tree.get_mut(..).unwrap().push(import_value) for
\* each import in turn
Expanded(t, package_name) ==
    IF ImportsOf(package_name) = <<>> \/ GetMutFails(t, package_name)
    THEN WithEntry(t, package_name)
    ELSE [WithEntry(t, package_name) EXCEPT ![package_name] = @ \o ImportsOf(package_name)]

\* Pushed with a fault: only the first import is pushed
PushedFirst(s, package_name, current_depth) ==
    IF ImportsOf(package_name) = <<>>
    THEN s
    ELSE Append(s, <<ImportsOf(package_name)[1], current_depth + 1>>)

\* the stack after the pushes of (import_value, current_depth + 1)
Pushed(s, package_name, current_depth) ==
    s \o [i \in 1..Len(ImportsOf(package_name)) |->
            <<ImportsOf(package_name)[i], current_depth + 1>>]

\* MarkVisited with a fault: the insert is left out
MarkVisitedNot(v, package_name) == v

\* visited.insert(package_name.clone())
MarkVisited(v, package_name) == v \cup {package_name}

\* pop; not yet visited: mark, create the entry, copy and push the imports
PopExpand ==
    /\ pc = "loop"
    /\ stack # <<>>
    /\ ~TooDeep(Top[2])
    /\ Top[1] \notin visited
    /\ visited' = MarkVisited(visited, Top[1])
    /\ tree' = Expanded(tree, Top[1])
    /\ stack' = Pushed(Popped, Top[1], Top[2])
    /\ pc' = IF GetMutFails(tree, Top[1]) THEN "panic" ELSE pc
    /\ UNCHANGED <<seed_todo, inputVars, dotVars, scanVars, rank_token>>

\* stack.pop() is None: the loop ends and tree is returned to
\* generate_dot_content, which starts to iterate over it
BuildReturn ==
    /\ pc = "loop"
    /\ stack = <<>>
    /\ emit_todo' = DOMAIN tree
    /\ pc' = "emit"
    /\ UNCHANGED <<buildVars, inputVars, rank_dir, dot_content, scanVars, rank_token>>

----------------------------------------------------------------------------
(* generate_dot_content *)

\* package_name.replace('"', "'").replace('/', "_")
Escape(token) == Replace(Replace(token, "\"", "'"), "/", "_")

\* EdgeLine with a fault: the two arguments of format! swapped
EdgeLineSwapped(package_name, import_value) ==
    <<" ", " ", "\"">> \o Escape(import_value) \o <<"\"", " ", "-", ">", " ", "\"">>
        \o Escape(package_name) \o <<"\"", ";", "\n">>

\* format!("  \"{}\" -> \"{}\";\n", ...)
EdgeLine(package_name, import_value) ==
    <<" ", " ", "\"">> \o Escape(package_name) \o <<"\"", " ", "-", ">", " ", "\"">>
        \o Escape(import_value) \o <<"\"", ";", "\n">>

RankDirLine(r) ==
    CASE r = "LR" -> <<"  rankdir=LR;\n">>
      [] r = "RL" -> <<"  rankdir=RL;\n">>
      [] r = "TB" -> <<"  rankdir=TB;\n">>
      [] r = "BT" -> <<"  rankdir=BT;\n">>

\* the lines written before build_dependency_tree is called
DotHeader(r) ==
    << <<"strict digraph G {\n">>,
       RankDirLine(r),
       <<"  graph [bgcolor=black];\n">>,
       <<"  graph [label=\"Orthogonal edges\", splines=ortho, nodesep=0.8];\n">>,
       <<"  edge [color=white];\n">>,
       <<"  graph[ratio=fill,center=1];\n">>,
       <<"  node[style=filled, shape=box];\n">> >>

\* EdgeLines with a fault: the inner loop stops after the first reference
EdgeLinesFirst(package_name, imports) ==
    [i \in 1..(IF imports = <<>> THEN 0 ELSE 1) |-> EdgeLine(package_name, imports[i])]

\* the edge lines of one (package_name, imports) pair, in list order
EdgeLines(package_name, imports) ==
    [i \in 1..Len(imports) |-> EdgeLine(package_name, imports[i])]

\* the call: the header is written and build_dependency_tree is entered
DotBegin ==
    /\ pc = "dot"
    /\ dot_content' = DotHeader(rank_dir)
    /\ BuildEnter
    /\ UNCHANGED <<inputVars, rank_dir, emit_todo, scanVars, rank_token>>

\* one iteration of `for (package_name, imports) in dependency_tree`
EmitEdges ==
    /\ pc = "emit"
    /\ \E package_name \in emit_todo :
        /\ emit_todo' = emit_todo \ {package_name}
        /\ dot_content' = dot_content \o EdgeLines(package_name, tree[package_name])
    /\ UNCHANGED <<pc, buildVars, inputVars, rank_dir, scanVars, rank_token>>

\* the loop is over: the closing brace, and the text is returned
DotEnd ==
    /\ pc = "emit"
    /\ emit_todo = {}
    /\ dot_content' = Append(dot_content, <<"}">>)
    /\ pc' = "done"
    /\ UNCHANGED <<buildVars, inputVars, rank_dir, emit_todo, scanVars, rank_token>>

----------------------------------------------------------------------------
(* The directory tree *)

\* What the scanners can observe of one directory entry: whether the ReadDir
\* iterator yields it (entry) or an Err, what fs::metadata says of it (err,
\* dir, file, or other for a fifo or a socket), whether read_dir / 
\* read_to_string succeeds on it (readable), its extension, and, for a file,
\* the identities of its `package ...;` and `import ...;` matches in text
\* order.
Kind(entry, meta, readable, ext, packages, imports) ==
    [entry |-> entry, meta |-> meta, readable |-> readable, ext |-> ext,
     packages |-> packages, imports |-> imports]

KEntryErr == Kind(FALSE, "err", FALSE, None, <<>>, <<>>)
KMetaErr == Kind(TRUE, "err", FALSE, None, <<>>, <<>>)
KOther == Kind(TRUE, "other", FALSE, None, <<>>, <<>>)
KDir == Kind(TRUE, "dir", TRUE, None, <<>>, <<>>)
KDirUnreadable == Kind(TRUE, "dir", FALSE, None, <<>>, <<>>)
KFileNoExt == Kind(TRUE, "file", TRUE, None, <<IdA>>, <<IdB>>)
KFileTxt == Kind(TRUE, "file", TRUE, Some("txt"), <<IdA>>, <<IdB>>)
KJavaUnreadable == Kind(TRUE, "file", FALSE, Some("java"), <<IdA>>, <<IdB>>)
KJavaNoPackage == Kind(TRUE, "file", TRUE, Some("java"), <<>>, <<IdA>>)
KJavaA == Kind(TRUE, "file", TRUE, Some("java"), <<IdA>>, <<IdB>>)
KJavaA2 == Kind(TRUE, "file", TRUE, Some("java"), <<IdA>>, <<>>)
KJavaB == Kind(TRUE, "file", TRUE, Some("java"), <<IdB, IdA>>, <<IdA, IdA>>)

Kinds == {KEntryErr, KMetaErr, KOther, KDir, KDirUnreadable, KFileNoExt, KFileTxt,
          KJavaUnreadable, KJavaNoPackage, KJavaA, KJavaA2, KJavaB}

\* Path 0 is folder_path; path i >= 1 is the entry fs.nodes[i], which lies in
\* the directory fs.nodes[i].parent.
\* the tree whose entry i has kind ks[i] and lies in directory ps[i]
TreeOf(ks, ps) == [i \in 1..Len(ks) |-> [parent |-> ps[i], kind |-> ks[i]]]

\* every entry lies in folder_path or in an earlier entry that is a directory
ValidParents(ks, ps) ==
    \A i \in 1..Len(ks) :
        IF ps[i] = 0 THEN TRUE
        ELSE ps[i] < i /\ ks[ps[i]].entry /\ ks[ps[i]].meta = "dir"

\* fs is a tree of at most n entries under a folder_path that can be read, or
\* (with nothing below it) a folder_path that cannot
FsIn(n) ==
    \/ fs = [root |-> FALSE, nodes |-> <<>>]
    \/ \E m \in 0..n : \E ks \in [1..m -> Kinds] : \E ps \in [1..m -> 0..(m - 1)] :
        /\ ValidParents(ks, ps)
        /\ fs = [root |-> TRUE, nodes |-> TreeOf(ks, ps)]

NoTree == [root |-> FALSE, nodes |-> <<>>]

\* fs::read_dir(path) is Ok
ReadDirOk(path) == IF path = 0 THEN fs.root ELSE fs.nodes[path].kind.readable

\* the entries fs::read_dir(path) yields, in the directory's order
Entries(path) ==
    SelectSeq([i \in 1..Len(fs.nodes) |-> i], LAMBDA i : fs.nodes[i].parent = path)

KindOf(e) == fs.nodes[e].kind

\* extract_package: the first match, None when the file cannot be read
ExtractPackage(f) ==
    IF ~f.readable \/ f.packages = <<>> THEN None ELSE Some(f.packages[1])

\* extract_imports: every match in order, None when the file cannot be read
ExtractImports(f) == IF ~f.readable THEN None ELSE Some(f.imports)

UnwrapOr(o, default) == IF IsSome(o) THEN Unwrap(o) ELSE default

----------------------------------------------------------------------------
(* traverse_folder *)

\* the map after the is_file() branch of traverse_folder has seen file f
SeqFile(m, f) ==
    IF IsSome(f.ext)
    THEN IF Unwrap(f.ext) # "java"
         THEN m
         ELSE IF IsSome(ExtractPackage(f))
              THEN MapInsert(m, Unwrap(ExtractPackage(f)),
                             UnwrapOr(ExtractImports(f), <<>>))
              ELSE m
    ELSE m

\* the call: an empty map and the stack vec![folder_path]
SeqEnter ==
    /\ seq_stack' = <<0>>
    /\ seq_entries' = <<>>
    /\ seq_map' = EmptyMap
    /\ seq_status' = "run"

\* stack.pop() yields a path; read_dir on it starts the for loop, or fails
SeqPop ==
    /\ seq_status = "run"
    /\ seq_entries = <<>>
    /\ seq_stack # <<>>
    /\ LET path == seq_stack[Len(seq_stack)]
       IN /\ seq_stack' = SubSeq(seq_stack, 1, Len(seq_stack) - 1)
          /\ seq_entries' = IF ReadDirOk(path) THEN Entries(path) ELSE <<>>
    /\ UNCHANGED <<pc, inputVars, buildVars, dotVars, fs, seq_map, seq_status, parVars,
                   rank_token>>

\* one iteration of `for entry in entries`
SeqEntry ==
    /\ seq_status = "run"
    /\ seq_entries # <<>>
    /\ LET e == Head(seq_entries)
           k == KindOf(e)
       IN /\ seq_entries' = Tail(seq_entries)
          /\ IF ~k.entry
             THEN UNCHANGED <<seq_stack, seq_map, seq_status>>
             ELSE IF k.meta = "err"
             THEN /\ seq_status' = "panic"
                  /\ UNCHANGED <<seq_stack, seq_map>>
             ELSE IF k.meta = "dir"
             THEN /\ seq_stack' = Append(seq_stack, e)
                  /\ UNCHANGED <<seq_map, seq_status>>
             ELSE IF k.meta = "file"
             THEN /\ seq_map' = SeqFile(seq_map, k)
                  /\ UNCHANGED <<seq_stack, seq_status>>
             ELSE UNCHANGED <<seq_stack, seq_map, seq_status>>
    /\ UNCHANGED <<pc, inputVars, buildVars, dotVars, fs, parVars, rank_token>>

\* stack.pop() is None: imports_map is returned
SeqReturn ==
    /\ seq_status = "run"
    /\ seq_entries = <<>>
    /\ seq_stack = <<>>
    /\ seq_status' = "ok"
    /\ UNCHANGED <<pc, inputVars, buildVars, dotVars, fs, seq_stack, seq_entries, seq_map,
                   parVars, rank_token>>

----------------------------------------------------------------------------
(* traverse_folder_par *)

\* the map after the is_file() branch of traverse_folder_par has seen file f
ParFile(m, f) ==
    IF IsSome(f.ext)
    THEN IF Unwrap(f.ext) = "java"
         THEN IF IsSome(ExtractPackage(f))
              THEN MapInsert(m, Unwrap(ExtractPackage(f)),
                             UnwrapOr(ExtractImports(f), <<>>))
              ELSE m
         ELSE m
    ELSE m

\* MergeInto with a fault: the map of the nested call is dropped
MergeIntoNothing(m, sub) == m

\* `for (key, value) in traverse_folder_par(file_path) { imports_map.insert(key, value) }`
MergeInto(m, sub) ==
    [k \in DOMAIN m \cup DOMAIN sub |-> IF k \in DOMAIN sub THEN sub[k] ELSE m[k]]

\* the Vec the call hands to par_iter(): vec![folder_path]
ParStack(folder_path) == <<folder_path>>

\* A call of traverse_folder_par: its own imports_map, its stack, and one
\* task per element of stack.par_iter(), each todo, run (walking `entries`),
\* wait (inside a nested call) or done.  caller is None for the outermost
\* call and Some(<<call, task>>) for a nested one.
NewCall(folder_path, caller) ==
    [caller |-> caller,
     stack |-> ParStack(folder_path),
     map |-> EmptyMap,
     tasks |-> [i \in 1..Len(ParStack(folder_path)) |-> [st |-> "todo", entries |-> <<>>]]]

Without(calls, c) == [x \in DOMAIN calls \ {c} |-> calls[x]]

AfterEntry(rest) == IF rest = <<>> THEN "done" ELSE "run"

\* the outermost call
ParEnter ==
    /\ par_calls' = MapInsert(EmptyMap, 0, NewCall(0, None))
    /\ par_status' = "run"
    /\ par_result' = EmptyMap

\* a worker takes one element of stack.par_iter() and calls read_dir on it
ParTaskStart ==
    /\ par_status = "run"
    /\ \E c \in DOMAIN par_calls : \E i \in 1..Len(par_calls[c].tasks) :
        /\ par_calls[c].tasks[i].st = "todo"
        /\ LET path == par_calls[c].stack[i]
               ents == IF ReadDirOk(path) THEN Entries(path) ELSE <<>>
           IN par_calls' = [par_calls EXCEPT ![c].tasks[i] =
                               [st |-> AfterEntry(ents), entries |-> ents]]
    /\ UNCHANGED <<pc, inputVars, buildVars, dotVars, fs, seqVars, par_status, par_result,
                   rank_token>>

\* one iteration of `for entry in entries.flatten()` in one task
ParEntry ==
    /\ par_status = "run"
    /\ \E c \in DOMAIN par_calls : \E i \in 1..Len(par_calls[c].tasks) :
        /\ par_calls[c].tasks[i].st = "run"
        /\ LET e == Head(par_calls[c].tasks[i].entries)
               rest == Tail(par_calls[c].tasks[i].entries)
               k == KindOf(e)
               skipped == [par_calls EXCEPT ![c].tasks[i] =
                              [st |-> AfterEntry(rest), entries |-> rest]]
           IN IF ~k.entry
              THEN par_calls' = skipped /\ UNCHANGED par_status
              ELSE IF k.meta = "err"
              THEN par_calls' = EmptyMap /\ par_status' = "panic"
              ELSE IF k.meta = "file"
              THEN /\ par_calls' = [skipped EXCEPT ![c].map = ParFile(par_calls[c].map, k)]
                   /\ UNCHANGED par_status
              ELSE IF k.meta = "dir"
              THEN /\ par_calls' =
                        MapInsert([par_calls EXCEPT ![c].tasks[i] =
                                      [st |-> "wait", entries |-> rest]],
                                  e, NewCall(e, Some(<<c, i>>)))
                   /\ UNCHANGED par_status
              ELSE par_calls' = skipped /\ UNCHANGED par_status
    /\ UNCHANGED <<pc, inputVars, buildVars, dotVars, fs, seqVars, par_result, rank_token>>

\* ParJoined with a fault: for_each returns without waiting for its tasks
ParJoinedNot(call) == TRUE

\* for_each has joined every task of the call
ParJoined(call) == \A i \in 1..Len(call.tasks) : call.tasks[i].st = "done"

\* for_each returns once every task of the call is done, and the call returns
\* its map: to the waiting task of the caller, which inserts every pair into
\* its own map, or, for the outermost call, to whoever called it
ParReturn ==
    /\ par_status = "run"
    /\ \E c \in DOMAIN par_calls :
        /\ ParJoined(par_calls[c])
        /\ IF par_calls[c].caller = None
           THEN /\ par_result' = par_calls[c].map
                /\ par_status' = "ok"
                /\ par_calls' = Without(par_calls, c)
           ELSE LET d == Unwrap(par_calls[c].caller)[1]
                    i == Unwrap(par_calls[c].caller)[2]
                IN /\ par_calls' =
                        [Without(par_calls, c) EXCEPT
                            ![d].map = MergeInto(par_calls[d].map, par_calls[c].map),
                            ![d].tasks[i].st = AfterEntry(par_calls[d].tasks[i].entries)]
                   /\ UNCHANGED <<par_status, par_result>>
    /\ UNCHANGED <<pc, inputVars, buildVars, dotVars, fs, seqVars, rank_token>>

----------------------------------------------------------------------------
(* main *)

\* RankDir::from_str with a fault: an unknown token falls back to the default
FromStrOrDefault(token) ==
    CASE token = "lr" -> Some("LR")
      [] token = "rl" -> Some("RL")
      [] token = "tb" -> Some("TB")
      [] token = "bt" -> Some("BT")
      [] OTHER -> Some("LR")

\* RankDir::from_str
FromStr(token) ==
    CASE token = "lr" -> Some("LR")
      [] token = "rl" -> Some("RL")
      [] token = "tb" -> Some("TB")
      [] token = "bt" -> Some("BT")
      [] OTHER -> None

\* every order in which an iteration can yield the elements of S
Orders(S) == {o \in [1..Cardinality(S) -> S] : \A i, j \in 1..Cardinality(S) :
                                                  i # j => o[i] # o[j]}

\* RankDir::from_str(rank_dir.unwrap_or("lr")).unwrap(); the name of the svg
\* file, which is computed next, is not part of the model
MainParse ==
    /\ pc = "main"
    /\ IF IsSome(FromStr(UnwrapOr(rank_token, "lr")))
       THEN /\ rank_dir' = Unwrap(FromStr(UnwrapOr(rank_token, "lr")))
            /\ pc' = "parsed"
       ELSE /\ pc' = "panic"
            /\ UNCHANGED rank_dir
    /\ UNCHANGED <<inputVars, buildVars, emit_todo, dot_content, scanVars, rank_token>>

\* traverse_folder_par(folder_path.to_path_buf()) is called
MainScan ==
    /\ pc = "parsed"
    /\ ParEnter
    /\ pc' = "scan"
    /\ UNCHANGED <<inputVars, buildVars, dotVars, fs, seqVars, rank_token>>

\* WithPrefixKey with a fault: the key is inserted without the test for a
\* prefix, under the empty string
WithPrefixKeyAlways(m, order) ==
    MapInsert(m, UnwrapOr(root_class_prefix, <<>>), order)

\* the map main hands to generate_dot_content: with a root prefix, the prefix
\* itself is inserted as a key whose imports are the keys that start with it,
\* in the order the iteration yields them
WithPrefixKey(m, order) ==
    IF IsSome(root_class_prefix)
    THEN MapInsert(m, Unwrap(root_class_prefix), order)
    ELSE m

\* the scan has returned: "Found {} packages" is printed, the prefix key is
\* inserted, and generate_dot_content is called
MainFound ==
    /\ pc = "scan"
    /\ par_status = "ok"
    /\ \E order \in Orders({k \in DOMAIN par_result :
                              IsSome(root_class_prefix)
                              /\ StartsWith(k, Unwrap(root_class_prefix))}) :
        imports_map' = WithPrefixKey(par_result, order)
    /\ pc' = "dot"
    /\ UNCHANGED <<root_class_prefix, depth, buildVars, dotVars, scanVars, rank_token>>

\* dot is spawned, fed dot_content, and its output written to the svg file;
\* a failure to spawn or to write is an unwrap on an Err
MainRender ==
    /\ pc = "done"
    /\ \E ok \in BOOLEAN : pc' = IF ok THEN "exit" ELSE "panic"
    /\ UNCHANGED <<inputVars, buildVars, dotVars, scanVars, rank_token>>

----------------------------------------------------------------------------
(* Both scanners called in turn on the same directory *)

CallTraverseFolder ==
    /\ pc = "harness"
    /\ seq_status = "idle"
    /\ SeqEnter
    /\ UNCHANGED <<pc, inputVars, buildVars, dotVars, fs, parVars, rank_token>>

CallTraverseFolderPar ==
    /\ pc = "harness"
    /\ seq_status \in {"ok", "panic"}
    /\ par_status = "idle"
    /\ ParEnter
    /\ UNCHANGED <<pc, inputVars, buildVars, dotVars, fs, seqVars, rank_token>>

----------------------------------------------------------------------------
(* Specifications *)

BuildIdle ==
    /\ seed_todo = {}
    /\ stack = <<>>
    /\ visited = {}
    /\ tree = EmptyMap
    /\ emit_todo = {}
    /\ dot_content = <<>>

ScanIdle ==
    /\ seq_stack = <<>>
    /\ seq_entries = <<>>
    /\ seq_map = EmptyMap
    /\ seq_status = "idle"
    /\ par_calls = EmptyMap
    /\ par_status = "idle"
    /\ par_result = EmptyMap

\* generate_dot_content called on every input of the bounded sets
Init ==
    /\ pc = "dot"
    /\ imports_map \in InputMaps
    /\ root_class_prefix \in InputPrefixes
    /\ depth \in InputDepths
    /\ rank_dir \in InputRankDirs
    /\ rank_token = None
    /\ fs = NoTree
    /\ BuildIdle
    /\ ScanIdle

Next ==
    \/ DotBegin
    \/ SeedRoot
    \/ PopTooDeep
    \/ PopVisited
    \/ PopExpand
    \/ BuildReturn
    \/ EmitEdges
    \/ DotEnd

Spec == Init /\ [][Next]_vars

\* traverse_folder, then traverse_folder_par, on every directory tree of the
\* bounded set
ScanInit ==
    /\ pc = "harness"
    /\ FsIn(MaxEntries)
    /\ imports_map = EmptyMap
    /\ root_class_prefix = None
    /\ depth = None
    /\ rank_dir = "none"
    /\ rank_token = None
    /\ BuildIdle
    /\ ScanIdle

ScanNext ==
    \/ CallTraverseFolder
    \/ SeqPop
    \/ SeqEntry
    \/ SeqReturn
    \/ CallTraverseFolderPar
    \/ ParTaskStart
    \/ ParEntry
    \/ ParReturn

ScanSpec == ScanInit /\ [][ScanNext]_vars

\* main on every command line and directory tree of the bounded sets
MainTokens == {None, Some("rl"), Some("tb"), Some("xx")}
MainPrefixes == {None, Some(<<"a">>), Some(IdB)}
MainDepths == {None, Some(0)}

MainInit ==
    /\ pc = "main"
    /\ FsIn(MaxEntries - 1)
    /\ rank_token \in MainTokens
    /\ root_class_prefix \in MainPrefixes
    /\ depth \in MainDepths
    /\ imports_map = EmptyMap
    /\ rank_dir = "none"
    /\ BuildIdle
    /\ ScanIdle

MainNext ==
    \/ MainParse
    \/ MainScan
    \/ ParTaskStart
    \/ ParEntry
    \/ ParReturn
    \/ MainFound
    \/ DotBegin
    \/ SeedRoot
    \/ PopTooDeep
    \/ PopVisited
    \/ PopExpand
    \/ BuildReturn
    \/ EmitEdges
    \/ DotEnd
    \/ MainRender

MainSpec == MainInit /\ [][MainNext]_vars

----------------------------------------------------------------------------
(* What the claims speak of, stated apart from the operators of the model *)

\* p is an initial segment of the identity k
HasPrefix(k, p) == \E n \in 0..Len(k) : n = Len(p) /\ \A i \in 1..n : k[i] = p[i]

\* the roots: every key, or with a prefix the keys that start with it
RootKeys ==
    {k \in DOMAIN imports_map :
        root_class_prefix = None \/ HasPrefix(k, root_class_prefix[1])}

\* the identities one import reference away from an identity of S
RefsOf(S) ==
    {r \in UNION {{imports_map[k][i] : i \in 1..Len(imports_map[k])}
                  : k \in S \cap DOMAIN imports_map} : TRUE}

\* the identities reachable from S along at most n import references
RECURSIVE ReachWithin(_, _)
ReachWithin(S, n) ==
    IF n = 0 THEN S ELSE ReachWithin(S, n - 1) \cup RefsOf(ReachWithin(S, n - 1))

\* every identity the map mentions, and the identities reachable from S
Mentioned == DOMAIN imports_map \cup RefsOf(DOMAIN imports_map)
Reachable(S) == ReachWithin(S, Cardinality(Mentioned))

\* build_dependency_tree has returned its subgraph
BuildReturned == pc \in {"emit", "done", "exit"}

\* the escaping rule of the specification, character by character
EscChar(c) == CASE c = "\"" -> "'" [] c = "/" -> "_" [] OTHER -> c
Esc(token) == [i \in 1..Len(token) |-> EscChar(token[i])]

\* a line of the text that is an edge statement:   "from" -> "to";
IsEdgeLine(l) == Len(l) >= 3 /\ l[1] = " " /\ l[2] = " " /\ l[3] = "\""

\* the first double-quote of line l at or after position n
QuoteFrom(l, n) ==
    CHOOSE i \in n..Len(l) : l[i] = "\"" /\ \A j \in n..(i - 1) : l[j] # "\""

\* an edge statement read back: the text between the first pair of quotes
\* and the text between the second pair
ParseEdge(l) ==
    LET q1 == QuoteFrom(l, 4)
        q2 == QuoteFrom(l, q1 + 6)
    IN <<SubSeq(l, 4, q1 - 1), SubSeq(l, q1 + 6, q2 - 1)>>

\* the line is exactly   "from" -> "to";\n   for the tokens read back
WellFormedEdge(l) ==
    LET t == ParseEdge(l)
    IN l = <<" ", " ", "\"">> \o t[1] \o <<"\"", " ", "-", ">", " ", "\"">> \o t[2]
               \o <<"\"", ";", "\n">>

\* the positions of the edge statements of the text
EdgeLinesAt == {i \in 1..Len(dot_content) : IsEdgeLine(dot_content[i])}

\* the (key, position) pairs of the references of subgraph t
RefSlots(t) == {<<k, i>> \in (DOMAIN t) \X (1..SumLen(t, DOMAIN t)) : i <= Len(t[k])}

----------------------------------------------------------------------------
(* C1 *)

\* what is left to do in a call of build_dependency_tree: the keys still to
\* seed, the stack entries still to pop, and the references of the keys not
\* yet expanded, which are still to push
BuildMeasure ==
    (IF pc = "seed" THEN 2 ELSE IF pc = "loop" THEN 1 ELSE 0)
        + 2 * Cardinality(seed_todo) + Len(stack)
        + SumLen(imports_map, DOMAIN imports_map \ visited)

BuildStep == SeedRoot \/ PopTooDeep \/ PopVisited \/ PopExpand \/ BuildReturn

TwoCycle(a, b) == [k \in {a, b} |-> IF k = a THEN <<b>> ELSE <<a>>]

\* C1: build_dependency_tree terminates for every map, prefix and depth
\* bound, cycles and self-imports included: every step of the call strictly
\* decreases a natural number, and the call is never stuck before it returns;
\* for the map {A: [B], B: [A]} with no prefix and no depth bound it returns
\* a subgraph whose key set is exactly {A, B}.
C1_BuildTerminates ==
    /\ [][(pc \in {"seed", "loop"}) => (BuildMeasure' < BuildMeasure)]_vars
    /\ [](pc \in {"seed", "loop"} => BuildMeasure > 0 /\ ENABLED BuildStep)
    /\ [](\A a, b \in Idents :
            (/\ a # b
             /\ imports_map = TwoCycle(a, b)
             /\ root_class_prefix = None
             /\ depth = None
             /\ BuildReturned) => DOMAIN tree = {a, b})

C1_Witness ==
    /\ imports_map = TwoCycle(IdA, IdB)
    /\ root_class_prefix = None
    /\ depth = None
    /\ pc = "emit"
    /\ DOMAIN tree = {IdA, IdB}

----------------------------------------------------------------------------
(* C2 *)

\* C2: every key of the returned subgraph is reachable from some root along
\* at most d import references, d being the depth bound (any number of
\* references when there is no bound).
C2_KeysWithinDepth ==
    BuildReturned =>
        \A k \in DOMAIN tree :
            k \in (IF depth = None THEN Reachable(RootKeys)
                   ELSE ReachWithin(RootKeys, depth[1]))

\* a bound of 1 that keeps a key one reference from a root and leaves out an
\* identity two references from it
C2_Witness ==
    /\ BuildReturned
    /\ depth = Some(1)
    /\ \E k \in DOMAIN tree : k \notin RootKeys
    /\ \E x \in ReachWithin(RootKeys, 2) : x \notin DOMAIN tree

----------------------------------------------------------------------------
(* C3 *)

\* every chain over the identities: the path, and the map it stands for
Chains == {<<p, ChainMap(p, last)>> : p \in Paths, last \in BOOLEAN}

\* C3: for a chain n0 -> n1 -> ... -> nk whose only root is n0 and a depth
\* bound d < k, the keys of the subgraph are exactly n0..nd, each ni maps to
\* [n(i+1)], and n(d+1) is a reference value but not a key.
C3_ChainCutAtDepth ==
    (BuildReturned /\ depth # None) =>
        \A c \in Chains :
            (/\ imports_map = c[2]
             /\ RootKeys = {c[1][1]}
             /\ depth[1] < Len(c[1]) - 1)
            => /\ DOMAIN tree = {c[1][i] : i \in 1..(depth[1] + 1)}
               /\ \A i \in 1..(depth[1] + 1) : tree[c[1][i]] = <<c[1][i + 1]>>
               /\ c[1][depth[1] + 2] \notin DOMAIN tree
               /\ tree[c[1][depth[1] + 1]][1] = c[1][depth[1] + 2]

\* the chain of four identities cut at max_depth = 1
C3_Witness ==
    /\ pc = "done"
    /\ depth = Some(1)
    /\ Cardinality(DOMAIN imports_map) = 4
    /\ \E p \in Paths :
        /\ Len(p) = 4
        /\ imports_map = ChainMap(p, TRUE)
        /\ RootKeys = {p[1]}
        /\ tree = [k \in {p[1], p[2]} |-> IF k = p[1] THEN <<p[2]>> ELSE <<p[3]>>]

----------------------------------------------------------------------------
(* C4 *)

\* the identities that occur in subgraph t, as a key or as a reference
Occurring(t) == DOMAIN t \cup UNION {{t[k][i] : i \in 1..Len(t[k])} : k \in DOMAIN t}

\* C4: with a root prefix p, every identity that occurs in the returned
\* subgraph, as a key or as a reference value, is a map key that starts with
\* p or is reachable from one through import references; and only keys that
\* start with p are ever on the stack at depth 0.
C4_PrefixFilters ==
    root_class_prefix # None =>
        /\ BuildReturned =>
             Occurring(tree) \subseteq
                Reachable({k \in DOMAIN imports_map : HasPrefix(k, root_class_prefix[1])})
        /\ \A i \in 1..Len(stack) :
             stack[i][2] = 0 => /\ stack[i][1] \in DOMAIN imports_map
                                /\ HasPrefix(stack[i][1], root_class_prefix[1])

\* a key that neither starts with the prefix nor is reachable stays out of a
\* non-empty subgraph
C4_Witness ==
    /\ BuildReturned
    /\ root_class_prefix = Some(<<"a">>)
    /\ DOMAIN tree # {}
    /\ IdC \in DOMAIN imports_map
    /\ imports_map[IdC] # <<>>
    /\ IdC \notin Occurring(tree)

----------------------------------------------------------------------------
(* C5 *)

ThreeChain(a, b, c) ==
    [k \in {a, b, c} |-> IF k = a THEN <<b>> ELSE IF k = b THEN <<c>> ELSE <<>>]

\* C5: for the map {a: [b], b: [c], c: []} with no prefix and no depth bound
\* the returned subgraph is the map itself, and the finished text holds
\* exactly two edge statements, a -> b and b -> c, in whatever order the
\* maps are iterated.
C5_EndToEnd ==
    \A a, b, c \in Idents :
        (/\ a # b /\ b # c /\ a # c
         /\ imports_map = ThreeChain(a, b, c)
         /\ root_class_prefix = None
         /\ depth = None)
        => /\ BuildReturned => tree = ThreeChain(a, b, c)
           /\ pc = "done" =>
                /\ Cardinality(EdgeLinesAt) = 2
                /\ \A i \in EdgeLinesAt : WellFormedEdge(dot_content[i])
                /\ {ParseEdge(dot_content[i]) : i \in EdgeLinesAt}
                      = {<<Esc(a), Esc(b)>>, <<Esc(b), Esc(c)>>}

C5_Witness ==
    /\ pc = "done"
    /\ imports_map = ThreeChain(IdA, IdB, IdC)
    /\ root_class_prefix = None
    /\ depth = None
    /\ Cardinality(EdgeLinesAt) = 2

----------------------------------------------------------------------------
(* C6 *)

\* the entries that are source files with a module identity to declare: a
\* readable .java file with a package statement; its identity is the first
Declaring ==
    {i \in 1..Len(fs.nodes) :
        /\ fs.nodes[i].kind.entry
        /\ fs.nodes[i].kind.meta = "file"
        /\ fs.nodes[i].kind.ext = <<"java">>
        /\ fs.nodes[i].kind.readable
        /\ fs.nodes[i].kind.packages # <<>>}
DeclaredId(i) == fs.nodes[i].kind.packages[1]

NoDuplicateIds == \A i, j \in Declaring : i # j => DeclaredId(i) # DeclaredId(j)

\* C6: on a directory tree in which no two source files declare the same
\* module identity, the maps returned by traverse_folder and by
\* traverse_folder_par have the same key set and, for every key, the same
\* reference list in the same order, however the parallel tasks are scheduled.
C6_ScannersAgree ==
    (seq_status = "ok" /\ par_status = "ok" /\ NoDuplicateIds) =>
        /\ DOMAIN seq_map = DOMAIN par_result
        /\ \A k \in DOMAIN seq_map : seq_map[k] = par_result[k]

\* both scanners have returned two identities, one of them declared by a
\* file in a subdirectory
C6_Witness ==
    /\ seq_status = "ok"
    /\ par_status = "ok"
    /\ NoDuplicateIds
    /\ Cardinality(DOMAIN par_result) = 2
    /\ \E i \in Declaring : fs.nodes[i].parent # 0 /\ DeclaredId(i) \in DOMAIN par_result
    /\ \E i \in Declaring : fs.nodes[i].parent = 0

----------------------------------------------------------------------------
(* C7 *)

\* C7: the scan never aborts on an unreadable entry: whatever fails to be
\* read (a directory, a directory entry, an entry's metadata, a file),
\* neither scanner panics.
C7_ScanNeverAborts == seq_status # "panic" /\ par_status # "panic"

----------------------------------------------------------------------------
(* C8 *)

\* the edge statements of the text that read back as from -> to
StatementsOf(from, to) == {i \in EdgeLinesAt : ParseEdge(dot_content[i]) = <<from, to>>}
\* the references of subgraph t that are written as from -> to
SlotsOf(t, from, to) ==
    {sl \in RefSlots(t) : Esc(sl[1]) = from /\ Esc(t[sl[1]][sl[2]]) = to}

\* C8: the text starts with the strict digraph declaration, and the finished
\* text holds exactly one edge statement per element of every reference list
\* of the subgraph: as many statements as the lists have elements, a
\* reference listed twice written twice, nothing for an empty list.
C8_OneEdgePerReference ==
    /\ pc \in {"seed", "loop", "emit", "done"} =>
         /\ dot_content # <<>>
         /\ dot_content[1] = <<"strict digraph G {\n">>
    /\ pc = "done" =>
         /\ Cardinality(EdgeLinesAt) = SumLen(tree, DOMAIN tree)
         /\ \A sl \in RefSlots(tree) :
              Cardinality(StatementsOf(Esc(sl[1]), Esc(tree[sl[1]][sl[2]])))
                = Cardinality(SlotsOf(tree, Esc(sl[1]), Esc(tree[sl[1]][sl[2]])))
         /\ \A k \in DOMAIN tree :
              tree[k] = <<>> => \A i \in EdgeLinesAt : ParseEdge(dot_content[i])[1] # Esc(k)

\* a reference listed twice and written twice, beside a key with no imports
C8_Witness ==
    /\ pc = "done"
    /\ \E k \in DOMAIN tree :
        /\ Len(tree[k]) = 2
        /\ tree[k][1] = tree[k][2]
        /\ Cardinality(StatementsOf(Esc(k), Esc(tree[k][1]))) = 2
    /\ \E k \in DOMAIN tree : tree[k] = <<>>

----------------------------------------------------------------------------
(* C9 *)

Clean(token) == \A i \in 1..Len(token) : token[i] # "\"" /\ token[i] # "/"

\* C9: every token of every edge statement is an identity or reference of
\* the subgraph with each double-quote replaced by an apostrophe and each '/'
\* by an underscore; it holds no double-quote and no '/', the statement
\* reads back as exactly these tokens, and escaping a token again leaves it
\* unchanged.
C9_EscapedTokens ==
    /\ \A i \in EdgeLinesAt :
        LET t == ParseEdge(dot_content[i])
        IN /\ WellFormedEdge(dot_content[i])
           /\ Clean(t[1]) /\ Clean(t[2])
           /\ Escape(t[1]) = t[1] /\ Escape(t[2]) = t[2]
           /\ \E sl \in RefSlots(tree) : t = <<Esc(sl[1]), Esc(tree[sl[1]][sl[2]])>>
    /\ \A x \in Occurring(tree) : Escape(x) = Esc(x) /\ Escape(Escape(x)) = Escape(x)

\* an identity with two double-quotes and a '/' has been written
C9_Witness ==
    /\ pc = "done"
    /\ IdC \in DOMAIN tree
    /\ \E i \in EdgeLinesAt :
        /\ ParseEdge(dot_content[i])[1] = <<"'", "_", "'">>
        /\ ParseEdge(dot_content[i])[2] = <<"a", "_">>

----------------------------------------------------------------------------
(* C10 *)

\* the entries a scan of folder_path comes to see
RECURSIVE Seen(_)
Seen(i) ==
    LET d == fs.nodes[i].parent
    IN IF d = 0 THEN fs.root
       ELSE /\ Seen(d)
            /\ fs.nodes[d].kind.entry
            /\ fs.nodes[d].kind.meta = "dir"
            /\ fs.nodes[d].kind.readable

\* the identities a complete scan writes into the map
ScannedIds == {DeclaredId(i) : i \in {j \in Declaring : Seen(j)}}

\* build_dependency_tree has been entered (its first read of the map is the
\* root-seeding loop)
BuildStarted ==
    \/ pc \in {"seed", "loop", "emit", "done", "exit"}
    \/ pc = "panic" /\ dot_content # <<>>

\* C10: when build_dependency_tree starts, every scanner task has finished
\* and been joined and every identity of the scan is in the Import Map; once
\* the builder has started no scanner step happens.
C10_ScanBeforeBuild ==
    /\ [](BuildStarted =>
            /\ par_status = "ok"
            /\ par_calls = EmptyMap
            /\ DOMAIN par_result \subseteq DOMAIN imports_map
            /\ ScannedIds \subseteq DOMAIN imports_map)
    /\ [][BuildStarted => UNCHANGED <<par_calls, par_status, par_result>>]_vars

\* the builder runs on a map that holds an identity found in a subdirectory
C10_Witness ==
    /\ pc = "loop"
    /\ \E i \in Declaring :
        /\ fs.nodes[i].parent # 0
        /\ Seen(i)
        /\ DeclaredId(i) \in DOMAIN imports_map

----------------------------------------------------------------------------
(* C11 *)

\* the keys of the scan that start with the root prefix
ScannedUnderPrefix ==
    {k \in DOMAIN par_result :
        root_class_prefix # None /\ HasPrefix(k, root_class_prefix[1])}

\* list l names every identity of S exactly once
Enumerates(l, S) ==
    /\ Len(l) = Cardinality(S)
    /\ {l[i] : i \in 1..Len(l)} = S

\* C11 as the specification has it: the map build_dependency_tree reads is
\* the map the scanner produced, keys and reference lists, with or without
\* a root prefix.
C11_MapAsScanned == BuildStarted => imports_map = par_result

\* C11, amended: build_dependency_tree leaves the map unchanged, and without
\* a root prefix the map it reads is the map the scanner produced; with a
\* root prefix main writes the map once more between the scan and the
\* builder: the prefix becomes a key whose list names each scanned key that
\* starts with the prefix exactly once (replacing the scanned list of an
\* identity equal to the prefix), and every other entry is as scanned.
C11_MapAsScannedButPrefixKey ==
    /\ [][BuildStarted => UNCHANGED imports_map]_vars
    /\ [](BuildStarted /\ root_class_prefix = None => imports_map = par_result)
    /\ [](BuildStarted /\ root_class_prefix # None =>
            /\ DOMAIN imports_map = DOMAIN par_result \cup {root_class_prefix[1]}
            /\ Enumerates(imports_map[root_class_prefix[1]], ScannedUnderPrefix)
            /\ \A k \in DOMAIN par_result :
                k # root_class_prefix[1] => imports_map[k] = par_result[k])

\* the builder runs on a map in which the prefix key has replaced the list
\* the scanner produced for the identity equal to the prefix
C11_Witness ==
    /\ pc = "loop"
    /\ root_class_prefix # None
    /\ root_class_prefix[1] \in DOMAIN par_result
    /\ imports_map[root_class_prefix[1]] # par_result[root_class_prefix[1]]
    /\ Cardinality(ScannedUnderPrefix) = 2

----------------------------------------------------------------------------
(* C12 *)

\* the four direction tokens the command line accepts; no token means "lr"
DirectionTokens == {"lr", "rl", "tb", "bt"}
Unrecognized == rank_token # None /\ rank_token[1] \notin DirectionTokens

\* no scanner step, no builder step and no renderer step has been taken
NothingStarted ==
    /\ par_status = "idle" /\ par_calls = EmptyMap /\ par_result = EmptyMap
    /\ seq_status = "idle"
    /\ imports_map = EmptyMap
    /\ seed_todo = {} /\ stack = <<>> /\ visited = {} /\ tree = EmptyMap
    /\ emit_todo = {} /\ dot_content = <<>>
    /\ rank_dir = "none"

\* C12: a layout direction token that is none of the four recognized tokens
\* aborts the run before any directory is scanned: the only step of such a
\* run is the one that ends it in the failure, and no scanner, builder or
\* renderer step ever occurs.
C12_BadDirectionAborts ==
    /\ [](Unrecognized => pc \in {"main", "panic"} /\ NothingStarted)
    /\ [](Unrecognized /\ pc = "main" => ENABLED MainParse)
    /\ [][Unrecognized => pc' = "panic"]_vars

\* the run has ended in the failure with a directory there to scan
C12_Witness ==
    /\ Unrecognized
    /\ pc = "panic"
    /\ fs.root
    /\ Len(fs.nodes) >= 1

----------------------------------------------------------------------------
(* C13 *)

\* a step of the builder's loop that expands the identity on top of the
\* stack: anything but a bare pop
Expands == pc = "loop" /\ (visited' # visited \/ tree' # tree \/ stack' # Popped)

\* the length of the reference list the map holds for identity k
RefCount(k) == IF k \in DOMAIN imports_map THEN Len(imports_map[k]) ELSE 0

\* C13: within one call of build_dependency_tree each identity is expanded
\* at most once: an expansion takes an identity that is not yet visited and
\* has no entry, marks exactly that identity visited for the rest of the call,
\* and no later step unmarks it, so the entry of a key holds its references
\* once and not several times over; the expansions, one per visited identity,
\* number at most the distinct identities that are keys or references of the
\* map, however often an identity is pushed.
C13_ExpandedOnce ==
    /\ [][Expands => /\ stack # <<>>
                     /\ Top[1] \notin visited
                     /\ Top[1] \notin DOMAIN tree
                     /\ visited' = visited \cup {Top[1]}
                     /\ DOMAIN tree' = DOMAIN tree \cup {Top[1]}]_vars
    /\ [][pc = "loop" => visited \subseteq visited']_vars
    /\ [](pc = "loop" \/ BuildReturned =>
            /\ DOMAIN tree = visited
            /\ visited \subseteq Mentioned
            /\ Cardinality(visited) <= Cardinality(Mentioned)
            /\ \A k \in DOMAIN tree : Len(tree[k]) = RefCount(k))

\* an identity that has been expanded is popped again within the depth bound
\* and the call goes on to return it as a key with its references held once
C13_Witness ==
    /\ pc = "loop"
    /\ Len(stack) >= 2
    /\ Top[1] \in visited
    /\ depth = None
    /\ Len(tree[Top[1]]) = 2

----------------------------------------------------------------------------
(* C14 *)

\* C14: in the returned subgraph the list of every key k is the list the
\* Import Map holds for k, element for element in the same order and with
\* its duplicates, when k is a key of the map, and is empty otherwise; the
\* depth bound and the visited set shorten no list.
C14_ListsCopiedWhole ==
    BuildReturned =>
        \A k \in DOMAIN tree :
            IF k \in DOMAIN imports_map
            THEN /\ Len(tree[k]) = Len(imports_map[k])
                 /\ \A i \in 1..Len(tree[k]) : tree[k][i] = imports_map[k][i]
            ELSE tree[k] = <<>>

\* a returned key holds the same reference twice, and holds a reference to
\* an identity that the depth bound kept out of the subgraph
C14_Witness ==
    /\ BuildReturned
    /\ depth = Some(0)
    /\ \E k \in DOMAIN tree :
        /\ Len(tree[k]) = 2
        /\ tree[k][1] = tree[k][2]
        /\ tree[k][1] \notin DOMAIN tree

----------------------------------------------------------------------------
(* C15 *)

\* the entry on top of the stack names an identity that is no key of the
\* Import Map, is not yet visited, and lies within the depth bound
DanglingOnTop ==
    /\ pc = "loop"
    /\ stack # <<>>
    /\ Top[1] \notin DOMAIN imports_map
    /\ Top[1] \notin visited
    /\ (depth = None \/ Top[2] <= depth[1])

\* subgraph t with the one more key k, whose list is empty
WithEmptyKey(t, k) == [x \in DOMAIN t \cup {k} |-> IF x = k THEN <<>> ELSE t[x]]

\* C15: a reference to an identity that is no key of the Import Map is no
\* failure: popped within the depth bound, the identity becomes a key of the
\* subgraph with an empty list and pushes nothing, and the call goes on; the
\* builder has no error outcome, and every returned key that is no key of
\* the map has an empty list.
C15_DanglingIsEmptyKey ==
    /\ [][DanglingOnTop => /\ Top[1] \notin DOMAIN tree
                           /\ tree' = WithEmptyKey(tree, Top[1])
                           /\ stack' = Popped
                           /\ pc' = "loop"]_vars
    /\ [](DanglingOnTop => ENABLED PopExpand)
    /\ [](pc # "panic")
    /\ [](BuildReturned =>
            \A k \in DOMAIN tree \ DOMAIN imports_map : tree[k] = <<>>)

\* a call with a depth bound has returned a key that is no key of the map
C15_Witness ==
    /\ BuildReturned
    /\ depth # None
    /\ \E k \in DOMAIN tree : k \notin DOMAIN imports_map /\ k \in RefsOf(RootKeys)

----------------------------------------------------------------------------
(* C16 *)

\* the reference list of the source file at entry i, in file order
DeclaredRefs(i) == fs.nodes[i].kind.imports

\* map m after the insert of list l under key k: l replaces what k had
Overwritten(m, k, l) == [x \in DOMAIN m \cup {k} |-> IF x = k THEN l ELSE m[x]]

\* map m after each pair of map sub has been inserted into it
OverwrittenBy(m, sub) ==
    [x \in DOMAIN m \cup DOMAIN sub |-> IF x \in DOMAIN sub THEN sub[x] ELSE m[x]]

\* every entry of map m is the whole reference list of one single file that
\* the scan comes to see and that declares the key
OneFilePerKey(m) ==
    \A k \in DOMAIN m :
        \E i \in Declaring : Seen(i) /\ DeclaredId(i) = k /\ m[k] = DeclaredRefs(i)

\* the sequential scanner is about to process a source file that declares
\* an identity
SeqAtDeclaring ==
    seq_status = "run" /\ seq_entries # <<>> /\ Head(seq_entries) \in Declaring

\* task i of call c of the parallel scanner processes, in this step, a
\* source file that declares an identity
ParProcessesDeclaring(c, i) ==
    /\ par_calls[c].tasks[i].st = "run"
    /\ Head(par_calls[c].tasks[i].entries) \in Declaring
    /\ c \in DOMAIN par_calls'
    /\ par_calls'[c].tasks[i].entries = Tail(par_calls[c].tasks[i].entries)

\* the nested call d returns, in this step, to call c
ParReturnsTo(d, c) ==
    /\ d \notin DOMAIN par_calls'
    /\ c \in DOMAIN par_calls'
    /\ par_calls[d].caller # None
    /\ par_calls[d].caller[1][1] = c

\* C16: when several source files declare the same module identity, the
\* entry of that identity is the reference list of exactly one of them, the
\* one inserted last, and never a concatenation or merge of several lists:
\* each insert of a file replaces whatever the key had by that file's list,
\* in the sequential scanner and in a task of the parallel scanner, and the
\* map a nested parallel call returns replaces, key by key, what its caller
\* had.
C16_LastInsertWins ==
    /\ [](seq_status \in {"run", "ok"} => OneFilePerKey(seq_map))
    /\ [](par_status = "ok" => OneFilePerKey(par_result))
    /\ [](\A c \in DOMAIN par_calls : OneFilePerKey(par_calls[c].map))
    /\ [][SeqAtDeclaring =>
            seq_map' = Overwritten(seq_map, DeclaredId(Head(seq_entries)),
                                   DeclaredRefs(Head(seq_entries)))]_vars
    /\ [][\A c \in DOMAIN par_calls : \A i \in 1..Len(par_calls[c].tasks) :
            ParProcessesDeclaring(c, i) =>
                par_calls'[c].map =
                    Overwritten(par_calls[c].map,
                                DeclaredId(Head(par_calls[c].tasks[i].entries)),
                                DeclaredRefs(Head(par_calls[c].tasks[i].entries)))]_vars
    /\ [][\A c, d \in DOMAIN par_calls :
            ParReturnsTo(d, c) =>
                par_calls'[c].map = OverwrittenBy(par_calls[c].map, par_calls[d].map)]_vars

\* two files declare the same identity with different lists, one of them in
\* a subdirectory; both scanners have returned, and they kept different
\* files' lists
C16_Witness ==
    /\ seq_status = "ok"
    /\ par_status = "ok"
    /\ \E i, j \in Declaring :
        /\ i # j
        /\ DeclaredId(i) = DeclaredId(j)
        /\ fs.nodes[i].parent = 0
        /\ fs.nodes[j].parent # 0
        /\ Seen(j)
        /\ seq_map[DeclaredId(i)] = DeclaredRefs(j)
        /\ par_result[DeclaredId(i)] = DeclaredRefs(i)
        /\ DeclaredRefs(i) # DeclaredRefs(j)

----------------------------------------------------------------------------
(* C17 *)

\* the tasks of the parallel scanner that hold entries still to process
TasksWithEntries ==
    {ci \in UNION {{<<c, i>> : i \in 1..Len(par_calls[c].tasks)} : c \in DOMAIN par_calls} :
        par_calls[ci[1]].tasks[ci[2]].entries # <<>>}

\* C17 as the specification has it: the parallel scanner fans out one task
\* per directory entry, so that no task has more than one entry to process
\* and the entries of one directory are in the hands of separate tasks.
C17_OneTaskPerEntry ==
    \A ci \in TasksWithEntries : Len(par_calls[ci[1]].tasks[ci[2]].entries) <= 1

----------------------------------------------------------------------------
(* C18 *)

\* the keys of the Import Map that hold a reference to identity x
ImportersOf(x) ==
    {k \in DOMAIN imports_map : \E i \in 1..Len(imports_map[k]) : imports_map[k][i] = x}

\* identity x is out of the builder's reach: seeding is over, x has not been
\* expanded, every key that refers to x has been expanded already, and every
\* entry the stack holds for x lies beyond the depth bound
Lost(x) ==
    /\ pc \in {"loop", "emit", "done"}
    /\ x \notin visited
    /\ x \notin DOMAIN tree
    /\ ImportersOf(x) \subseteq visited
    /\ \A i \in 1..Len(stack) :
        stack[i][1] = x => depth # None /\ stack[i][2] > depth[1]

\* C18: with a depth bound the subgraph need not hold every identity within
\* the bound by shortest path.  An identity that is out of the builder's
\* reach stays out of reach and is no key of the returned subgraph, whatever
\* its shortest distance from a root; and there are a map, a root set and a
\* bound (the witness) for which this happens to an identity whose shortest
\* path from a root is within the bound, its importer having been expanded
\* first at a greater depth.
C18_DeepFirstExpansionLoses ==
    /\ [][\A x \in Mentioned : Lost(x) => Lost(x)']_vars
    /\ [](\A x \in Mentioned : Lost(x) /\ BuildReturned => x \notin DOMAIN tree)

\* the subgraph has been returned without an identity that is one reference
\* away from a root under the bound 1: its only importer, itself a root, was
\* expanded at depth 1 as the reference of another root
C18_Witness ==
    /\ BuildReturned
    /\ depth = Some(1)
    /\ root_class_prefix = None
    /\ \E x \in ReachWithin(RootKeys, 1) :
        /\ x \notin DOMAIN tree
        /\ Lost(x)
        /\ \E b \in ImportersOf(x) : b \in RootKeys /\ ImportersOf(b) # {}

----------------------------------------------------------------------------
(* C19 *)

\* root r is on top of the stack beyond the depth bound and not yet visited
RootTooDeepOnTop(r) ==
    /\ pc = "loop"
    /\ stack # <<>>
    /\ Top[1] = r
    /\ r \in RootKeys
    /\ r \notin visited
    /\ depth # None
    /\ Top[2] > depth[1]

\* C19: every root (every key of the Import Map, or with a prefix every key
\* that starts with it) is a key of the returned subgraph, for every depth
\* bound, zero included, and every iteration order; a root that is popped
\* beyond the bound before its depth-0 entry is discarded without being
\* marked visited, and its depth-0 entry is still on the stack.  With no
\* prefix every key of the map is a key of the subgraph.
C19_RootsAreKeys ==
    /\ [](BuildReturned => RootKeys \subseteq DOMAIN tree)
    /\ [](BuildReturned /\ root_class_prefix = None =>
            DOMAIN imports_map \subseteq DOMAIN tree)
    /\ [](\A r \in DOMAIN imports_map :
            RootTooDeepOnTop(r) => \E i \in 1..Len(stack) : stack[i] = <<r, 0>>)
    /\ [][\A r \in DOMAIN imports_map :
            RootTooDeepOnTop(r) => r \notin visited' /\ stack' = Popped]_vars

\* under the bound 0 the subgraph has been returned with a root as a key
\* that another root refers to, so that the root was also pushed at depth 1
C19_Witness ==
    /\ BuildReturned
    /\ depth = Some(0)
    /\ \E r \in RootKeys :
        /\ r \in DOMAIN tree
        /\ \E k \in RootKeys : k # r /\ r \in RefsOf({k})

----------------------------------------------------------------------------
(* C20 *)

\* the subgraph the inputs determine when there is no depth bound: the
\* identities reachable from the roots, each with the list the map holds for
\* it, or the empty list when the map has none
ReachableSubgraph ==
    [k \in Reachable(RootKeys) |->
        IF k \in DOMAIN imports_map THEN imports_map[k] ELSE <<>>]

\* C20: with no depth bound the keys of the returned subgraph are exactly
\* the identities reachable from the roots along import references, the
\* roots included, and the whole returned mapping is determined by the map
\* and the prefix alone: it is the same in every run, whatever the order in
\* which the seeding loop yields the keys.
C20_UnboundedIsReachable ==
    (BuildReturned /\ depth = None) =>
        /\ DOMAIN tree = Reachable(RootKeys)
        /\ tree = ReachableSubgraph

\* a call without a depth bound has returned for a map with two roots, which
\* the seeding loop can yield in either order, one of them referring to the
\* other, and with a key that is no root
C20_Witness ==
    /\ BuildReturned
    /\ depth = None
    /\ Cardinality(RootKeys) = 2
    /\ \E r \in RootKeys : RefsOf({r}) \cap RootKeys # {} /\ r \notin RefsOf({r})
    /\ DOMAIN tree \ RootKeys # {}

====
